---- MODULE Spec2Model ----
(***************************************************************************)
(* A model of pymarquise: the Marquise class (marquise/marquise.py) and    *)
(* the string helpers of marquise/marquise_cffi.py, together with the      *)
(* part of libmarquise the class drives (the context, the two spools, the  *)
(* source handles).                                                        *)
(*                                                                         *)
(* Python values are tagged records.  A Python string is a sequence of     *)
(* code points, a C buffer is a sequence of bytes.  A Python int n is kept *)
(* as the pair (k, d) with n = k * 2^64 + d and |d| < 2^63, which is exact *)
(* for the integers used here and lets the uint64 casts be computed        *)
(* without leaving the integers TLC can hold.                              *)
(***************************************************************************)
EXTENDS Integers, Sequences, FiniteSets, TLC

VARIABLES
    marquise_ctx,         \* self.marquise_ctx: UNSET, CTX or NONE
    spool_path_points,    \* self.spool_path_points
    spool_path_contents,  \* self.spool_path_contents
    errno,                \* FFI.errno
    time,                 \* time.time(), in whole seconds
    lib_ctx,              \* libmarquise's view of the context
    shutdown_calls,       \* number of marquise_shutdown calls so far
    live_sources,         \* source handles allocated and not yet freed
    last,                 \* the last operation: name, arguments, outcome
    calls,                \* the native calls the last operation made
    ops,                  \* number of operations so far
    pc,                   \* per thread: the line a thread is at
    ctx_arg,              \* per thread: the context it loaded for a call
    todo,                 \* per thread: calls it may still start
    stale_use             \* a native call got a context already shut down

vars == <<marquise_ctx, spool_path_points, spool_path_contents, errno, time,
          lib_ctx, shutdown_calls, live_sources,
          last, calls, ops, pc, ctx_arg, todo, stale_use>>

objvars == <<marquise_ctx, spool_path_points, spool_path_contents>>
libvars == <<lib_ctx, shutdown_calls, live_sources>>
thrvars == <<pc, ctx_arg, todo, stale_use>>

(***************************************************************************)
(* Bounds of the model.                                                    *)
(***************************************************************************)
MaxOps == 3
MaxTime == 1
MaxCalls == 2

(***************************************************************************)
(* Python values.                                                          *)
(***************************************************************************)
PyNone == [t |-> "None"]
PyInt(k, d) == [t |-> "int", k |-> k, d |-> d]
PyStr(s) == [t |-> "str", v |-> s]

\* Values of self.marquise_ctx.
UNSET == "unset"
CTX == "ctx"
NONE == "None"

\* errno values FFI.errno is compared with or set to.
EINVAL == "EINVAL"
ENOMEM == "ENOMEM"
\* time.time() is in seconds; timestamps are in nanoseconds.
NANOS == 1000000000

(***************************************************************************)
(* Inputs.                                                                 *)
(***************************************************************************)
\* "a", "a0", "", "A", "a\0A", "e-acute", and a non-string.
Namespaces ==
    {PyStr(<<97>>), PyStr(<<97, 48>>), PyStr(<<>>), PyStr(<<65>>),
     PyStr(<<97, 0, 65>>), PyStr(<<233>>), PyNone}

\* "", "a", "e-acute", "e-grave", "a\0b", "a e-acute", "a e-grave".
Identifiers ==
    {PyStr(<<>>), PyStr(<<97>>), PyStr(<<233>>), PyStr(<<232>>),
     PyStr(<<97, 0, 98>>), PyStr(<<97, 233>>), PyStr(<<97, 232>>)}

\* 42 and -1 for the datapoint operations.
SendAddresses == {PyInt(0, 42), PyInt(0, -1)}
\* 42, 2^64 - 1, -1, 2^64 and "a" for update_source.
SourceAddresses ==
    {PyInt(0, 42), PyInt(1, -1), PyInt(0, -1), PyInt(1, 0), PyStr(<<97>>)}
\* omitted, 0 and 2^64 - 1.
Timestamps == {PyNone, PyInt(0, 0), PyInt(1, -1)}
\* 7 and 2^64.
SimpleValues == {PyInt(0, 7), PyInt(1, 0)}
\* "", "a\0 e-acute", "euro sign".
ExtendedValues == {PyStr(<<>>), PyStr(<<97, 0, 233>>), PyStr(<<8364>>)}
\* metadata_dict: {}, {"k": "v\0 e-acute"}, {None: "v"}, {"k": None},
\* {"k": 1}, {None: None}.
Metadata ==
    {<<>>,
     [x \in {PyStr(<<107>>)} |-> PyStr(<<118, 0, 233>>)],
     [x \in {PyNone} |-> PyStr(<<118>>)],
     [x \in {PyStr(<<107>>)} |-> PyNone],
     [x \in {PyStr(<<107>>)} |-> PyInt(0, 1)],
     [x \in {PyNone} |-> PyNone]}
\* What a native call returns: 0 on success, -1 on failure.
Statuses == {0, -1}

(***************************************************************************)
(* Strings and buffers (marquise_cffi.py).                                 *)
(***************************************************************************)
\* The UTF-8 bytes of one code point.
Utf8Char(c) ==
    IF c < 128 THEN <<c>>
    ELSE IF c < 2048 THEN <<192 + (c \div 64), 128 + (c % 64)>>
    ELSE IF c < 65536
         THEN <<224 + (c \div 4096), 128 + ((c \div 64) % 64), 128 + (c % 64)>>
    ELSE <<240 + (c \div 262144), 128 + ((c \div 4096) % 64),
           128 + ((c \div 64) % 64), 128 + (c % 64)>>

RECURSIVE Utf8(_)
Utf8(s) == IF s = <<>> THEN <<>> ELSE Utf8Char(Head(s)) \o Utf8(Tail(s))

\* The code points of a sequence of UTF-8 bytes.
RECURSIVE Utf8Decode(_)
Utf8Decode(b) ==
    IF b = <<>> THEN <<>>
    ELSE IF b[1] < 128 THEN <<b[1]>> \o Utf8Decode(Tail(b))
    ELSE IF b[1] < 224
         THEN <<(b[1] - 192) * 64 + (b[2] - 128)>> \o Utf8Decode(SubSeq(b, 3, Len(b)))
    ELSE IF b[1] < 240
         THEN <<(b[1] - 224) * 4096 + (b[2] - 128) * 64 + (b[3] - 128)>>
              \o Utf8Decode(SubSeq(b, 4, Len(b)))
    ELSE <<(b[1] - 240) * 262144 + (b[2] - 128) * 4096 + (b[3] - 128) * 64
           + (b[4] - 128)>> \o Utf8Decode(SubSeq(b, 5, Len(b)))

\* safe_encode raises TypeError for anything but a string.
Encodable(x) == x.t = "str"
safe_encode(x) == Utf8(x.v)
safe_decode(b) == PyStr(Utf8Decode(b))

\* The bytes of a char buffer up to its first null: what a char* reader sees.
RECURSIVE CString(_)
CString(buf) ==
    IF buf = <<>> \/ Head(buf) = 0 THEN <<>> ELSE <<Head(buf)>> \o CString(Tail(buf))

\* FFI.new('char[]', bytes): the bytes and a terminating null.
cstring(new_string) == safe_encode(new_string) \o <<0>>
\* The length in characters in place of the length in bytes.
len_cstring_chars(new_string) == Len(new_string.v)

len_cstring(new_string) == Len(safe_encode(new_string))
cprint(ffi_string) == safe_decode(CString(ffi_string))
is_cnull(maybe_null) == maybe_null = "NULL"

\* len() of a Python string: its number of code points.
PyLen(x) == Len(x.v)

(***************************************************************************)
(* Integers.                                                               *)
(***************************************************************************)
\* 0 <= n < 2^64, for n = k * 2^64 + d.
InUint64(n) == n.t = "int" /\ ((n.k = 0 /\ n.d >= 0) \/ (n.k = 1 /\ n.d < 0))
\* FFI.cast("uint64_t", n): n modulo 2^64.
CastUint64(n) == IF n.d >= 0 THEN PyInt(0, n.d) ELSE PyInt(1, n.d)

(***************************************************************************)
(* libmarquise, as the binding drives it.  A native call is a record: its  *)
(* name, the arguments it was given and what it returned.                  *)
(***************************************************************************)
\* The namespace pattern [a-z0-9]+, on what a char* reader sees.
valid_namespace(ns) ==
    /\ Len(ns) > 0
    /\ \A i \in 1..Len(ns) : ns[i] \in (97..122) \cup (48..57)

\* The spool paths of a namespace: "/<ns>/p" and "/<ns>/c".
build_spool_path(ns, stream) == <<47>> \o ns \o <<47, stream, 0>>

\* marquise_init: NULL and EINVAL on a bad namespace, NULL on a resource
\* failure, else a context holding the two spool paths.
marquise_init(namespace_c, res_ok) ==
    LET ns == CString(namespace_c)
    IN  IF ~valid_namespace(ns)
        THEN [fn |-> "marquise_init", namespace |-> namespace_c, ret |-> "NULL",
              errno |-> EINVAL]
        ELSE IF ~res_ok
        THEN [fn |-> "marquise_init", namespace |-> namespace_c, ret |-> "NULL",
              errno |-> ENOMEM]
        ELSE [fn |-> "marquise_init", namespace |-> namespace_c, ret |-> CTX,
              errno |-> "none",
              spool_path_points |-> build_spool_path(ns, 112),
              spool_path_contents |-> build_spool_path(ns, 99)]

\* The state of the library, and what one native call does to it.
Lib ==
    [lib_ctx |-> lib_ctx, shutdown_calls |-> shutdown_calls,
     live_sources |-> live_sources]

LibStep(L, c) ==
    CASE c.fn = "marquise_init" ->
            IF c.ret = CTX THEN [L EXCEPT !.lib_ctx = "live"] ELSE L
      [] c.fn = "marquise_shutdown" ->
            [L EXCEPT !.lib_ctx = "shutdown", !.shutdown_calls = @ + 1]
      [] c.fn = "marquise_new_source" ->
            IF c.ret = "source" THEN [L EXCEPT !.live_sources = @ + 1] ELSE L
      [] c.fn = "marquise_free_source" -> [L EXCEPT !.live_sources = @ - 1]
      [] OTHER -> L

RECURSIVE LibRun(_, _)
LibRun(L, cs) == IF cs = <<>> THEN L ELSE LibRun(LibStep(L, Head(cs)), Tail(cs))

\* The records a sequence of native calls appends to the points spool and to
\* the contents spool: one per send or update that returned 0.
RECURSIVE PointsAppended(_)
PointsAppended(cs) ==
    IF cs = <<>> THEN <<>>
    ELSE LET c == Head(cs)
         IN  (IF c.fn = "marquise_send_simple" /\ c.ret = 0
              THEN <<[kind |-> "simple", address |-> c.address,
                      timestamp |-> c.timestamp, value |-> c.value]>>
              ELSE IF c.fn = "marquise_send_extended" /\ c.ret = 0
              THEN <<[kind |-> "extended", address |-> c.address,
                      timestamp |-> c.timestamp,
                      value |-> SubSeq(c.value, 1, c.length),
                      length |-> c.length]>>
              ELSE <<>>) \o PointsAppended(Tail(cs))

RECURSIVE ContentsAppended(_)
ContentsAppended(cs) ==
    IF cs = <<>> THEN <<>>
    ELSE LET c == Head(cs)
         IN  (IF c.fn = "marquise_update_source" /\ c.ret = 0
              THEN <<[address |-> c.address, fields |-> c.fields]>>
              ELSE <<>>) \o ContentsAppended(Tail(cs))

(***************************************************************************)
(* The Marquise class (marquise.py).  Each method is an operator giving    *)
(* the outcome of one call: what it returns or raises, the native calls it *)
(* makes in order, and the handle's context afterwards.                    *)
(***************************************************************************)
Raise(exc, ctx) == [result |-> exc, calls |-> <<>>, ctx |-> ctx]

\* Marquise.__init__
Marquise__init__(namespace, res_ok) ==
    IF ~Encodable(namespace) THEN Raise("TypeError", UNSET)
    ELSE LET c == marquise_init(cstring(namespace), res_ok)
         IN  IF is_cnull(c.ret)
             THEN IF c.errno = EINVAL
                  THEN [result |-> "ValueError: Invalid namespace",
                        calls |-> <<c>>, ctx |-> UNSET]
                  ELSE [result |-> "RuntimeError", calls |-> <<c>>, ctx |-> UNSET]
             ELSE [result |-> "None", calls |-> <<c>>, ctx |-> c.ret]

\* close without its check of line 49.
AlreadyClosed_unchecked(ctx) == FALSE

\* Lines 49-52: close leaves a closed handle alone.
AlreadyClosed(ctx) == ctx = NONE

close(ctx) ==
    IF AlreadyClosed(ctx) THEN [result |-> "None", calls |-> <<>>, ctx |-> ctx]
    ELSE [result |-> "None",
          calls |-> <<[fn |-> "marquise_shutdown", ctx |-> ctx]>>,
          ctx |-> NONE]

\* hash_identifier: the buffer of the identifier and len(identifier).
hash_identifier(identifier) ==
    IF ~Encodable(identifier) THEN Raise("TypeError", marquise_ctx)
    ELSE [result |-> "hash",
          calls |-> <<[fn |-> "marquise_hash_identifier",
                       id |-> cstring(identifier),
                       id_len |-> PyLen(identifier)]>>,
          ctx |-> marquise_ctx]

\* current_timestamp: int(time.time() * 1000000000)
current_timestamp(now) == PyInt(0, now * NANOS)

\* A write without its check of the context.
WriteOnClosed_unchecked(ctx) == FALSE

\* Lines 95, 125, 157: the closed-handle check that opens every write.
WriteOnClosed(ctx) == ctx = NONE

\* "if not timestamp" in place of "if timestamp is None": 0 counts as omitted.
DefaultTimestamp_falsy(timestamp, now) ==
    IF timestamp = PyNone \/ timestamp = PyInt(0, 0)
    THEN PyInt(0, now * NANOS) ELSE timestamp

\* Lines 100-101 and 130-131.
DefaultTimestamp(timestamp, now) ==
    IF timestamp = PyNone THEN current_timestamp(now) ELSE timestamp

\* The status of the native call ignored.
StatusResult_ignored(success) == "True"

\* Lines 111-114, 144-147, 200-205: the status of the native call decides.
StatusResult(success) == IF success # 0 THEN "RuntimeError" ELSE "True"

send_simple(ctx, address, timestamp, value, now, status) ==
    IF WriteOnClosed(ctx) THEN Raise("ValueError: closed handle", ctx)
    ELSE LET ts == DefaultTimestamp(timestamp, now)
         IN  [result |-> StatusResult(status),
              calls |-> <<[fn |-> "marquise_send_simple", ctx |-> ctx,
                           address |-> CastUint64(address),
                           timestamp |-> CastUint64(ts),
                           value |-> CastUint64(value), ret |-> status]>>,
              ctx |-> ctx]

send_extended(ctx, address, timestamp, value, now, status) ==
    IF WriteOnClosed(ctx) THEN Raise("ValueError: closed handle", ctx)
    ELSE LET ts == DefaultTimestamp(timestamp, now)
         IN  [result |-> StatusResult(status),
              calls |-> <<[fn |-> "marquise_send_extended", ctx |-> ctx,
                           address |-> CastUint64(address),
                           timestamp |-> CastUint64(ts),
                           value |-> cstring(value),
                           length |-> len_cstring(value), ret |-> status]>>,
              ctx |-> ctx]

\* metadata_dict handed on without the checks.
MetadataError_unchecked(metadata_dict) == "ok"

\* Lines 167-182: the checks of metadata_dict before any native call.
MetadataError(metadata_dict) ==
    IF \E x \in DOMAIN metadata_dict : x = PyNone
    THEN "TypeError: key is a Nonetype"
    ELSE IF \E x \in DOMAIN metadata_dict : metadata_dict[x] = PyNone
    THEN "TypeError: value is a Nonetype"
    ELSE IF \E x \in DOMAIN metadata_dict : ~Encodable(x)
    THEN "TypeError: key cast"
    ELSE IF \E x \in DOMAIN metadata_dict : ~Encodable(metadata_dict[x])
    THEN "TypeError: value cast"
    ELSE "ok"

\* What the library reads through a char*: the bytes up to the first null.
CBytes(x) == IF Encodable(x) THEN CString(cstring(x)) ELSE <<>>

\* Lines 193-197: which exception the dispatch of marquise_update_source
\* raises for this address, and whether the handler for it frees the source.
DispatchError(address) ==
    IF address.t # "int" THEN "TypeError"
    ELSE IF ~InUint64(address) THEN "OverflowError"
    ELSE "ok"
CaughtAtDispatch(exc) == exc = "TypeError"

update_source(ctx, address, metadata_dict, src_ok, status) ==
    IF WriteOnClosed(ctx) THEN Raise("ValueError: closed handle", ctx)
    ELSE IF MetadataError(metadata_dict) # "ok"
    THEN Raise(MetadataError(metadata_dict), ctx)
    ELSE LET fields == {<<CBytes(x), CBytes(metadata_dict[x])>> :
                            x \in DOMAIN metadata_dict}
             new  == [fn |-> "marquise_new_source", fields |-> fields,
                      n |-> Cardinality(DOMAIN metadata_dict),
                      ret |-> IF src_ok THEN "source" ELSE "NULL"]
             free == [fn |-> "marquise_free_source", source |-> new.ret]
             upd  == [fn |-> "marquise_update_source", ctx |-> ctx,
                      address |-> address, source |-> new.ret,
                      fields |-> fields, ret |-> status]
             exc  == DispatchError(address)
         IN  IF is_cnull(new.ret)
             THEN [result |-> "ValueError: new_source", calls |-> <<new>>,
                   ctx |-> ctx]
             ELSE IF exc # "ok"
             THEN [result |-> exc,
                   calls |-> IF CaughtAtDispatch(exc) THEN <<new, free>>
                             ELSE <<new>>,
                   ctx |-> ctx]
             ELSE [result |-> StatusResult(status),
                   calls |-> <<new, upd, free>>, ctx |-> ctx]

(***************************************************************************)
(* One handle used by one caller: every action is one whole call.          *)
(***************************************************************************)
Idle == [op |-> "none", args |-> <<>>, result |-> "None", pre |-> UNSET, at |-> 0]

Init ==
    /\ marquise_ctx = UNSET
    /\ spool_path_points = PyNone
    /\ spool_path_contents = PyNone
    /\ errno = "none"
    /\ time = 0
    /\ lib_ctx = "none"
    /\ shutdown_calls = 0
    /\ live_sources = 0
    /\ last = Idle
    /\ calls = <<>>
    /\ ops = 0
    /\ pc = <<>>
    /\ ctx_arg = <<>>
    /\ todo = <<>>
    /\ stale_use = FALSE

\* The bookkeeping of a finished call, and its native calls applied in order.
Finish(op, args, o) ==
    /\ ops < MaxOps
    /\ ops' = ops + 1
    /\ last' = [op |-> op, args |-> args, result |-> o.result,
                pre |-> marquise_ctx, at |-> time]
    /\ calls' = o.calls
    /\ marquise_ctx' = o.ctx
    /\ LET L == LibRun(Lib, o.calls)
       IN  /\ lib_ctx' = L.lib_ctx
           /\ shutdown_calls' = L.shutdown_calls
           /\ live_sources' = L.live_sources
    /\ UNCHANGED <<time, thrvars>>

Open(namespace, res_ok) ==
    /\ marquise_ctx = UNSET
    /\ LET o == Marquise__init__(namespace, res_ok)
       IN  /\ Finish("__init__", <<namespace>>, o)
           /\ errno' = IF o.calls # <<>> /\ is_cnull(o.calls[1].ret)
                       THEN o.calls[1].errno ELSE errno
           /\ IF o.ctx = CTX
              THEN /\ spool_path_points' = cprint(o.calls[1].spool_path_points)
                   /\ spool_path_contents' = cprint(o.calls[1].spool_path_contents)
              ELSE UNCHANGED <<spool_path_points, spool_path_contents>>

Close ==
    /\ marquise_ctx # UNSET
    /\ Finish("close", <<>>, close(marquise_ctx))
    /\ UNCHANGED <<spool_path_points, spool_path_contents, errno>>

HashIdentifier(identifier) ==
    /\ Finish("hash_identifier", <<identifier>>, hash_identifier(identifier))
    /\ UNCHANGED <<spool_path_points, spool_path_contents, errno>>

SendSimple(address, timestamp, value, status) ==
    /\ marquise_ctx # UNSET
    /\ LET o == send_simple(marquise_ctx, address, timestamp, value, time, status)
       IN  Finish("send_simple", <<address, timestamp, value>>, o)
    /\ UNCHANGED <<spool_path_points, spool_path_contents, errno>>

SendExtended(address, timestamp, value, status) ==
    /\ marquise_ctx # UNSET
    /\ LET o == send_extended(marquise_ctx, address, timestamp, value, time, status)
       IN  Finish("send_extended", <<address, timestamp, value>>, o)
    /\ UNCHANGED <<spool_path_points, spool_path_contents, errno>>

UpdateSource(address, metadata_dict, src_ok, status) ==
    /\ marquise_ctx # UNSET
    /\ LET o == update_source(marquise_ctx, address, metadata_dict, src_ok, status)
       IN  Finish("update_source", <<address, metadata_dict>>, o)
    /\ UNCHANGED <<spool_path_points, spool_path_contents, errno>>

\* The wall clock moves on between calls.
Tick ==
    /\ time < MaxTime
    /\ time' = time + 1
    /\ UNCHANGED <<objvars, errno, libvars, last, calls, ops, thrvars>>

Next ==
    \/ \E namespace \in Namespaces, res_ok \in BOOLEAN : Open(namespace, res_ok)
    \/ Close
    \/ \E identifier \in Identifiers : HashIdentifier(identifier)
    \/ \E address \in SendAddresses, timestamp \in Timestamps,
          value \in SimpleValues, status \in Statuses :
            SendSimple(address, timestamp, value, status)
    \/ \E address \in SendAddresses, timestamp \in Timestamps,
          value \in ExtendedValues, status \in Statuses :
            SendExtended(address, timestamp, value, status)
    \/ \E address \in SourceAddresses, metadata_dict \in Metadata,
          src_ok \in BOOLEAN, status \in Statuses :
            UpdateSource(address, metadata_dict, src_ok, status)
    \/ Tick

Spec == Init /\ [][Next]_vars

(***************************************************************************)
(* One handle shared by several threads.  The class takes no lock, and a   *)
(* native call releases the interpreter lock, so the threads interleave    *)
(* between the lines of a method: the check of self.marquise_ctx, the load *)
(* of self.marquise_ctx as an argument, the native call, and what follows. *)
(***************************************************************************)
Threads == {1, 2}
Methods == {"close", "send_simple", "send_extended", "update_source"}
\* Where a thread is: the method, the place in it, and the address argument
\* of an update_source under way.
At(op, at, address) == [op |-> op, at |-> at, address |-> address]
IdlePc == At("none", "idle", PyNone)

\* The handle has been opened on namespace "a" before the threads start.
InitThreads ==
    /\ marquise_ctx = CTX
    /\ spool_path_points = cprint(build_spool_path(<<97>>, 112))
    /\ spool_path_contents = cprint(build_spool_path(<<97>>, 99))
    /\ errno = "none"
    /\ time = 0
    /\ lib_ctx = "live"
    /\ shutdown_calls = 0
    /\ live_sources = 0
    /\ last = [op |-> "__init__", args |-> <<PyStr(<<97>>)>>, result |-> "None",
               pre |-> UNSET, at |-> 0]
    /\ calls = <<marquise_init(cstring(PyStr(<<97>>)), TRUE)>>
    /\ ops = 1
    /\ pc = [t \in Threads |-> IdlePc]
    /\ ctx_arg = [t \in Threads |-> NONE]
    /\ todo = [t \in Threads |-> MaxCalls]
    /\ stale_use = FALSE

seqvars == <<spool_path_points, spool_path_contents, errno, time, last, calls, ops>>

\* Lines 49, 95, 125, 157: the method starts with its check of the context.
\* update_source goes on to check metadata_dict (lines 167-182), which reads
\* nothing shared, and raises TypeError when the check fails.
ThreadCheck(t, op, address, metadata_dict) ==
    /\ pc[t] = IdlePc
    /\ todo[t] > 0
    /\ todo' = [todo EXCEPT ![t] = @ - 1]
    /\ pc' = [pc EXCEPT ![t] =
                IF op = "close" /\ AlreadyClosed(marquise_ctx) THEN IdlePc
                ELSE IF op # "close" /\ WriteOnClosed(marquise_ctx) THEN IdlePc
                ELSE IF op = "update_source"
                THEN IF MetadataError(metadata_dict) # "ok" THEN IdlePc
                     ELSE At(op, "new_source", address)
                ELSE At(op, "load", PyNone)]
    /\ UNCHANGED <<objvars, libvars, seqvars, ctx_arg, stale_use>>

\* Lines 185-187: update_source allocates its source handle, and raises
\* ValueError when marquise_new_source returns NULL.
ThreadNewSource(t, src_ok) ==
    /\ pc[t].at = "new_source"
    /\ IF src_ok
       THEN /\ live_sources' = live_sources + 1
            /\ pc' = [pc EXCEPT ![t].at = "load"]
       ELSE /\ live_sources' = live_sources
            /\ pc' = [pc EXCEPT ![t] = IdlePc]
    /\ UNCHANGED <<objvars, lib_ctx, shutdown_calls, seqvars, ctx_arg, todo, stale_use>>

\* Lines 57, 109, 142, 194: self.marquise_ctx is read as the argument of the
\* native call.  None is no pointer: the dispatch raises TypeError.
ThreadLoadCtx(t) ==
    /\ pc[t].at = "load"
    /\ ctx_arg' = [ctx_arg EXCEPT ![t] = marquise_ctx]
    /\ pc' = [pc EXCEPT ![t] =
                IF marquise_ctx = NONE
                THEN IF pc[t].op = "update_source"
                     THEN At("update_source", "free", pc[t].address)
                     ELSE IdlePc
                ELSE At(pc[t].op, "call", pc[t].address)]
    /\ UNCHANGED <<objvars, libvars, seqvars, todo, stale_use>>

\* The dispatch of the native call.  marquise_update_source converts its
\* address first (lines 193-197): an exception there ends the method without
\* the native call, after freeing the source only if it is a TypeError.
\* Otherwise the native call runs on the context that was loaded.
ThreadNativeCall(t) ==
    /\ pc[t].at = "call"
    /\ LET exc == IF pc[t].op = "update_source"
                  THEN DispatchError(pc[t].address) ELSE "ok"
       IN  IF exc # "ok"
           THEN /\ UNCHANGED <<lib_ctx, shutdown_calls, stale_use>>
                /\ pc' = [pc EXCEPT ![t] =
                            IF CaughtAtDispatch(exc)
                            THEN At("update_source", "free", pc[t].address)
                            ELSE IdlePc]
           ELSE /\ stale_use' = (stale_use \/ lib_ctx = "shutdown")
                /\ IF pc[t].op = "close"
                   THEN /\ lib_ctx' = "shutdown"
                        /\ shutdown_calls' = shutdown_calls + 1
                        /\ pc' = [pc EXCEPT ![t].at = "clear"]
                   ELSE /\ UNCHANGED <<lib_ctx, shutdown_calls>>
                        /\ pc' = [pc EXCEPT ![t] =
                                    IF pc[t].op = "update_source"
                                    THEN At("update_source", "free", pc[t].address)
                                    ELSE IdlePc]
    /\ UNCHANGED <<objvars, live_sources, seqvars, ctx_arg, todo>>

\* Line 60: close marks the handle closed.
ThreadClear(t) ==
    /\ pc[t].at = "clear"
    /\ marquise_ctx' = NONE
    /\ pc' = [pc EXCEPT ![t] = IdlePc]
    /\ UNCHANGED <<spool_path_points, spool_path_contents, libvars, seqvars,
                   ctx_arg, todo, stale_use>>

\* Lines 196, 201, 204: update_source frees its source handle.
ThreadFreeSource(t) ==
    /\ pc[t].at = "free"
    /\ live_sources' = live_sources - 1
    /\ pc' = [pc EXCEPT ![t] = IdlePc]
    /\ UNCHANGED <<objvars, lib_ctx, shutdown_calls, seqvars, ctx_arg, todo, stale_use>>

NextThreads ==
    \/ \E t \in Threads, op \in Methods, address \in SourceAddresses,
          metadata_dict \in Metadata : ThreadCheck(t, op, address, metadata_dict)
    \/ \E t \in Threads, src_ok \in BOOLEAN : ThreadNewSource(t, src_ok)
    \/ \E t \in Threads : ThreadLoadCtx(t)
    \/ \E t \in Threads : ThreadNativeCall(t)
    \/ \E t \in Threads : ThreadClear(t)
    \/ \E t \in Threads : ThreadFreeSource(t)

SpecThreads == InitThreads /\ [][NextThreads]_vars

(***************************************************************************)
(* Properties.                                                             *)
(***************************************************************************)
Writes == {"send_simple", "send_extended", "update_source"}
WriteFns == {"marquise_send_simple", "marquise_send_extended", "marquise_update_source"}

\* C1: once the handle is closed it stays closed, and every send_simple,
\* send_extended or update_source on it raises the closed-handle ValueError
\* without making any native call, so nothing is appended to a spool.
C1_ClosedHandleRejectsWrites ==
    [][marquise_ctx = NONE =>
          /\ marquise_ctx' = NONE
          /\ (ops' = ops + 1 /\ last'.op \in Writes) =>
                /\ last'.result = "ValueError: closed handle"
                /\ calls' = <<>>
                /\ PointsAppended(calls') = <<>>
                /\ ContentsAppended(calls') = <<>>]_vars

C1_Witness ==
    /\ marquise_ctx = NONE
    /\ last.pre = NONE
    /\ last.op = "send_extended"
    /\ last.result = "ValueError: closed handle"

\* C2: close on an open handle calls marquise_shutdown once and marks the
\* handle closed; close on a closed handle returns without error, makes no
\* native call and changes nothing; marquise_shutdown is never called twice.
C2_CloseIdempotent ==
    [][(ops' = ops + 1 /\ last'.op = "close") =>
          /\ last'.result = "None"
          /\ marquise_ctx' = NONE
          /\ shutdown_calls' <= 1
          /\ IF marquise_ctx = NONE
             THEN /\ calls' = <<>>
                  /\ UNCHANGED <<objvars, errno, libvars>>
             ELSE /\ Len(calls') = 1
                  /\ calls'[1].fn = "marquise_shutdown"
                  /\ shutdown_calls' = shutdown_calls + 1]_vars

C2_Witness ==
    /\ last.op = "close"
    /\ last.pre = NONE
    /\ marquise_ctx = NONE
    /\ shutdown_calls = 1

\* C3: update_source on an open handle with a None key or a None value
\* raises the Nonetype TypeError, calls neither marquise_new_source nor
\* marquise_update_source, appends nothing to the contents spool and leaves
\* the handle open.
C3_NullMetadataRejected ==
    [][(/\ ops' = ops + 1
        /\ last'.op = "update_source"
        /\ marquise_ctx = CTX
        /\ \E x \in DOMAIN last'.args[2] :
              x = PyNone \/ last'.args[2][x] = PyNone) =>
          /\ last'.result \in {"TypeError: key is a Nonetype",
                               "TypeError: value is a Nonetype"}
          /\ \A i \in DOMAIN calls' :
                calls'[i].fn \notin {"marquise_new_source", "marquise_update_source"}
          /\ ContentsAppended(calls') = <<>>
          /\ live_sources' = live_sources
          /\ marquise_ctx' = CTX]_vars

C3_Witness ==
    /\ last.op = "update_source"
    /\ last.pre = CTX
    /\ last.args[2] = [x \in {PyStr(<<107>>)} |-> PyNone]
    /\ last.result = "TypeError: value is a Nonetype"
    /\ calls = <<>>
    /\ marquise_ctx = CTX

\* C4: opening a namespace that matches [a-z0-9]+ succeeds (short of a
\* resource failure) with two distinct spool paths derived from the
\* namespace, and opening any other string raises the Invalid namespace
\* ValueError.
C4_OpenValidatesNamespace ==
    (last.op = "__init__" /\ Encodable(last.args[1])) =>
        IF valid_namespace(last.args[1].v)
        THEN \/ last.result = "RuntimeError"
             \/ /\ last.result = "None"
                /\ marquise_ctx = CTX
                /\ spool_path_points # spool_path_contents
                /\ spool_path_points = PyStr(<<47>> \o last.args[1].v \o <<47, 112>>)
                /\ spool_path_contents = PyStr(<<47>> \o last.args[1].v \o <<47, 99>>)
        ELSE last.result = "ValueError: Invalid namespace"

\* C5: the length hash_identifier hands to the native hash is the number of
\* bytes of the encoded identifier it hands to it.
C5_HashWholeIdentifier ==
    (last.op = "hash_identifier" /\ calls # <<>>) =>
        /\ calls[1].id = Utf8(last.args[1].v) \o <<0>>
        /\ calls[1].id_len = Len(Utf8(last.args[1].v))

\* C6: send_extended hands the native call the UTF-8 bytes of the value and
\* their number, so the record appended on success holds exactly those bytes,
\* embedded nulls and non-ASCII bytes included.
C6_ExtendedFullLength ==
    (last.op = "send_extended" /\ calls # <<>>) =>
        LET c == calls[1]
            bytes == Utf8(last.args[3].v)
        IN  /\ c.fn = "marquise_send_extended"
            /\ c.length = Len(bytes)
            /\ SubSeq(c.value, 1, c.length) = bytes
            /\ c.ret = 0 =>
                  /\ Len(PointsAppended(calls)) = 1
                  /\ PointsAppended(calls)[1].value = bytes
                  /\ PointsAppended(calls)[1].length = Len(bytes)

C6_Witness ==
    /\ last.op = "send_extended"
    /\ last.args[3] = PyStr(<<97, 0, 233>>)
    /\ calls # <<>>
    /\ calls[1].ret = 0
    /\ calls[1].length = 4
    /\ PointsAppended(calls)[1].value = <<97, 0, 195, 169>>

\* C7: a write on an open handle returns True exactly when its native call
\* returned 0 and raises RuntimeError when it returned anything else, and
\* the handle is still open afterwards.
C7_FailuresReported ==
    (last.op \in Writes /\ last.pre = CTX) =>
        LET W == {i \in DOMAIN calls : calls[i].fn \in WriteFns}
        IN  /\ marquise_ctx = CTX
            /\ (last.result = "True") <=> (\E i \in W : calls[i].ret = 0)
            /\ \A i \in W : calls[i].ret # 0 => last.result = "RuntimeError"
            /\ \A i \in W : calls[i].fn = "marquise_" \o last.op

C7_Witness ==
    /\ last.op = "update_source"
    /\ last.pre = CTX
    /\ last.result = "RuntimeError"
    /\ \E i \in DOMAIN calls :
          calls[i].fn = "marquise_update_source" /\ calls[i].ret # 0
    /\ marquise_ctx = CTX

\* C8: send_simple and send_extended enqueue the clock's nanoseconds when
\* the timestamp is None, and otherwise the given uint64 timestamp (0
\* included); the uint64 address and the value are enqueued as given.
C8_TimestampAndFields ==
    (last.op \in {"send_simple", "send_extended"} /\ calls # <<>>) =>
        LET c == calls[1]
            address == last.args[1]
            timestamp == last.args[2]
            value == last.args[3]
        IN  /\ timestamp = PyNone => c.timestamp = PyInt(0, last.at * 1000000000)
            /\ (timestamp # PyNone /\ InUint64(timestamp)) => c.timestamp = timestamp
            /\ InUint64(address) => c.address = address
            /\ (last.op = "send_simple" /\ InUint64(value)) => c.value = value
            /\ last.op = "send_extended" => c.value = Utf8(value.v) \o <<0>>

C8_Witness ==
    /\ last.op = "send_simple"
    /\ last.args = <<PyInt(0, 42), PyNone, PyInt(0, 7)>>
    /\ last.at = 1
    /\ calls # <<>>
    /\ calls[1].timestamp = PyInt(0, 1000000000)
    /\ calls[1].address = PyInt(0, 42)
    /\ calls[1].value = PyInt(0, 7)

\* C9: every source handle update_source obtains from marquise_new_source
\* is freed by marquise_free_source exactly once before the call ends.
C9_SourceAlwaysFreed ==
    /\ live_sources = 0
    /\ last.op = "update_source" =>
          Cardinality({i \in DOMAIN calls :
                          calls[i].fn = "marquise_new_source" /\ calls[i].ret = "source"})
          = Cardinality({i \in DOMAIN calls : calls[i].fn = "marquise_free_source"})

\* C10: with several threads on one handle, marquise_shutdown is called at
\* most once and no native call gets a context already shut down.
C10_NoDoubleShutdownNoStaleUse ==
    /\ shutdown_calls <= 1
    /\ ~stale_use

====
